---- MODULE Spec2Model ----
(***************************************************************************)
(* Double-buffered segment ID generator (internal/generator/segment.go).   *)
(*                                                                         *)
(* Every atomic access of the Go code (atomic.Pointer Load/Store,          *)
(* atomic.Bool Load/Store/CompareAndSwap, atomic.AddInt64, one MongoDB     *)
(* FindOneAndUpdate) is one step of the thread that performs it.  Threads  *)
(* are the NextID callers and the goroutines started by                    *)
(* `go g.loadNextSegment()`.                                               *)
(***************************************************************************)
EXTENDS Integers, Sequences, FiniteSets, TLC

\* ------------------------------------------------------------------ bounds
\* Width of one range.  The program uses 1000 (segment.go:38); the model
\* scales it down so that exhaustion and the 80% mark are reached.
Step == 2
\* NextID calls made in one run, by all callers together.
MaxCalls == 4
\* Goroutines started by NextID that have not finished yet.
MaxGo == 1
\* Store faults: outages and corruptions of the counter.
MaxOutages == 1
\* Answers of a corrupted counter that are not positive.
MaxInvalid == 3
\* Largest count of a /batch request (the server allows 1000).
MaxBatch == 3
\* Ranges the store grants, the first one included.
MaxRanges == 3

\* ------------------------------------------------------- program constants
\* for i := 0; i < 2; i++   (NextID)
NextIDAttempts == 2
\* maxRetries := 3          (switchSegment)
maxRetries == 3
\* float64(used)/float64(total) >= 0.8, as the integer ratio 8/10
ThresholdNum == 8
ThresholdDen == 10

\* Thread identities: callers first, goroutines after them.  Callers are
\* numbered in the order of their first call.
AllCallers == {1, 2, 3}
Goroutines == {Cardinality(AllCallers) + k : k \in 1..MaxGo}
Threads == AllCallers \cup Goroutines

NoSeg == 0

VARIABLES
  maxId,          \* the store's counter for the business tag
  storeUp,        \* the store answers (FALSE: unreachable or timing out)
  outages,        \* history: store faults so far
  closed,         \* Close has disconnected the client
  heap,           \* every Segment allocated so far; a pointer is an index
  currentSegment, \* atomic.Pointer[Segment]
  nextSegment,    \* atomic.Pointer[Segment]
  loadingFlag,    \* atomic.Bool
  pc,             \* position of every thread
  cur,            \* NextID: current
  id,             \* NextID: id
  i,              \* NextID: i
  j,              \* switchSegment: i
  tmp,            \* switchSegment: value of g.nextSegment.Load() at line 110
  res,            \* loadNextSegment: outcome of the store round trip
  origin,         \* the segment a goroutine's dispatcher was dispensing from
  calls,          \* history: NextID calls begun by each caller
  budget,         \* NextID calls that may still begin
  failed,         \* history: the caller's latest call failed in an outage
  snap,           \* history: what held when the caller's running call began
  issued,         \* history: every ID returned so far
  dupes,          \* history: IDs returned more than once
  seen,           \* history: kinds of return that have happened (see Finish)
  batch,          \* /batch handler of each caller: count, ids, err, response
  prefetchIncs    \* history: store increments by goroutines, per origin segment

vars == <<maxId, storeUp, outages, closed, heap, currentSegment, nextSegment,
          loadingFlag, pc, cur, id, i, j, tmp, res, origin, calls, budget,
          failed, snap, issued, dupes, seen, batch, prefetchIncs>>

storeVars == <<maxId, storeUp, outages, closed>>
slotVars == <<currentSegment, nextSegment>>
callVars == <<cur, id, i, j, tmp>>
histVars == <<calls, budget, failed, snap, issued, dupes, seen, batch>>

\* --------------------------------------------------------------- helpers
SetMax(S) == IF S = {} THEN 0 ELSE CHOOSE x \in S : \A y \in S : y <= x

NoRes == [kind |-> "none", v |-> 0]
\* No /batch request is being served: status 0 is "nothing written yet".
NoBatch == [count |-> 0, ids |-> <<>>, err |-> FALSE, status |-> 0,
            body |-> <<>>]
NoSnap == [floor |-> 0, closed |-> FALSE, lone |-> FALSE, up |-> FALSE,
           outages |-> 0, maxId |-> 0, afterErr |-> FALSE,
           exhausted |-> FALSE, att |-> 0, invalid |-> FALSE]

\* Mutant: the range starts one early, on the last ID of the range before.
NewSegmentOverlap(maxID) ==
  [Min |-> maxID - Step, Max |-> maxID, Current |-> maxID - Step - 1]

\* Mutant: the counter is read before the increment (ReturnDocument Before),
\* so the range lies above what the store has granted.
NewSegmentAhead(maxID) ==
  [Min |-> maxID + 1, Max |-> maxID + Step, Current |-> maxID]

\* Segment{Min: MaxID-step+1, Max: MaxID, Current: MaxID-step}
NewSegment(maxID) ==
  [Min |-> maxID - Step + 1, Max |-> maxID, Current |-> maxID - Step]

\* Mutant: the bound check is off by one.
InRangeOffByOne(v, s) == v <= s.Max + 1

\* if id <= current.Max
InRange(v, s) == v <= s.Max

\* float64(used)/float64(total) >= 0.8
RatioReached(s) ==
  (s.Current - s.Min + 1) * ThresholdDen >= (s.Max - s.Min + 1) * ThresholdNum

\* Mutant: the flag is set without being tested.
CanAcquireAlways(flag) == TRUE

\* loadingFlag.CompareAndSwap(false, true) succeeds
CanAcquire(flag) == flag = FALSE

\* Mutant: any counter value is taken for a range.
ValidAlways(v) == TRUE

\* The negation of: if result.MaxID <= 0
Valid(v) == v > 0

\* --------------------------------------------------------------- initial
\* NewSegmentIDGenerator: the first range is loaded synchronously from a
\* counter that starts at 0 and is installed as the current segment.
Init ==
  /\ maxId = Step
  /\ storeUp = TRUE
  /\ outages = 0
  /\ closed = FALSE
  /\ heap = <<NewSegment(Step)>>
  /\ currentSegment = 1
  /\ nextSegment = NoSeg
  /\ loadingFlag = FALSE
  /\ pc = [t \in Threads |-> IF t \in AllCallers THEN "idle" ELSE "g_free"]
  /\ cur = [p \in AllCallers |-> NoSeg]
  /\ id = [p \in AllCallers |-> 0]
  /\ i = [p \in AllCallers |-> 0]
  /\ j = [p \in AllCallers |-> 0]
  /\ tmp = [p \in AllCallers |-> NoSeg]
  /\ res = [t \in Threads |-> NoRes]
  /\ origin = [g \in Goroutines |-> NoSeg]
  /\ calls = [p \in AllCallers |-> 0]
  /\ budget = MaxCalls
  /\ failed = [p \in AllCallers |-> FALSE]
  /\ snap = [p \in AllCallers |-> NoSnap]
  /\ issued = {}
  /\ dupes = {}
  /\ seen = {}
  /\ batch = [p \in AllCallers |-> NoBatch]
  /\ prefetchIncs = <<0>>

\* ------------------------------------------------------- call and return
\* A load is in flight: the thread is past the compare-and-swap.
InLoad(t) == pc[t] \in {"ld_store", "ld_install", "ld_release"}

\* The store has answered every call so far and the client is connected.
Healthy == outages = 0 /\ ~closed

\* p is the only caller that has called NextID.
Lone(p) == \A q \in AllCallers \ {p} : calls[q] = 0

\* p has been the only caller, and the store was in one state for the whole
\* of its call, which began as sn records.
Steady(p, sn) ==
  Lone(p) /\ sn.lone /\ storeUp = sn.up /\ outages = sn.outages

\* The thread moves on inside its call.
Goto(t, l) ==
  /\ pc' = [pc EXCEPT ![t] = l]
  /\ UNCHANGED histVars

\* What a return of (kind, v) by p adds to seen:
\*   "late"        an ID not above one returned before the call began
\*   "leak"        an ID outside [Min, Max] of the segment it was claimed from
\*   "err_healthy" an error though no store call has failed, client connected
\*   "seq_bad"     healthy store, one caller: call n returned other than n
\*   "outage_id"   one caller, exhausted at the start, store down for the
\*                 whole call, no range allocated during it: an ID, or more
\*                 than maxRetries round trips
\*   "recover_bad" one caller, its previous call failed in an outage, store
\*                 up for the whole call: other than the Min of the segment
\*                 claimed from
\*   "closed_id"   an ID from a call that began after Close
Events(p, sn, kind, v) ==
  LET s == heap[cur[p]]
      ok == kind = "id"
  IN  {e \in {"late", "leak", "err_healthy", "seq_bad", "outage_id",
              "recover_bad", "closed_id"} :
         \/ e = "late" /\ ok /\ v <= sn.floor
         \/ e = "leak" /\ ok /\ ~(s.Min <= v /\ v <= s.Max)
         \/ e = "err_healthy" /\ ~ok /\ Healthy
         \/ e = "seq_bad" /\ Lone(p) /\ sn.lone /\ Healthy
              /\ ~(ok /\ v = calls[p])
         \/ e = "outage_id" /\ Steady(p, sn) /\ sn.exhausted
              /\ ~storeUp /\ maxId = sn.maxId
              /\ (ok \/ sn.att > maxRetries)
         \/ e = "recover_bad" /\ Steady(p, sn) /\ sn.afterErr
              /\ storeUp /\ ~closed /\ ~(ok /\ v = s.Min)
         \/ e = "closed_id" /\ ok /\ sn.closed}

\* The /batch loop takes the result of its NextID call:
\* if err != nil { ... return }; ids = append(ids, id)
Collected(b, kind, v) ==
  IF kind = "id"
    THEN [b EXCEPT !.ids = Append(@, v)]
    ELSE [b EXCEPT !.err = TRUE]

\* NextID returns (kind = "id": v, nil; kind = "err": 0, error) from the call
\* that began as sn records.  A /batch handler that made the call takes the
\* result.
Return(p, sn, kind, v, pcBase) ==
  /\ pc' = [pcBase EXCEPT ![p] = "idle"]
  /\ seen' = seen \cup Events(p, sn, kind, v)
  /\ issued' = IF kind = "id" THEN issued \cup {v} ELSE issued
  /\ dupes' = IF kind = "id" /\ v \in issued THEN dupes \cup {v} ELSE dupes
  /\ failed' = [failed EXCEPT ![p] =
                  /\ kind = "err"
                  /\ Steady(p, sn) /\ sn.exhausted /\ ~storeUp]
  /\ snap' = [snap EXCEPT ![p] = NoSnap]
  /\ batch' = IF batch[p].count > 0
                THEN [batch EXCEPT ![p] = Collected(@, kind, v)]
                ELSE batch
  /\ cur' = [cur EXCEPT ![p] = NoSeg]
  /\ id' = [id EXCEPT ![p] = 0]
  /\ i' = [i EXCEPT ![p] = 0]
  /\ j' = [j EXCEPT ![p] = 0]
  /\ tmp' = [tmp EXCEPT ![p] = NoSeg]

\* The running call of p returns.
Finish(p, kind, v, pcBase) ==
  /\ Return(p, snap[p], kind, v, pcBase)
  /\ UNCHANGED <<calls, budget>>

\* ---------------------------------------------------------------- NextID
\* What is recorded of the moment a call by p begins.  floor is the largest
\* ID returned before that moment.  The store's state is recorded for a
\* caller that is alone, for the sequential scenarios.
Snapshot(p, floor, alone) ==
  IF alone
    THEN [floor |-> floor, closed |-> closed, lone |-> TRUE,
          up |-> storeUp, outages |-> outages, maxId |-> maxId,
          afterErr |-> failed[p],
          exhausted |-> /\ currentSegment # NoSeg
                        /\ heap[currentSegment].Current
                             >= heap[currentSegment].Max
                        /\ nextSegment = NoSeg
                        /\ \A t \in Threads : ~InLoad(t),
          att |-> 0, invalid |-> FALSE]
    ELSE [NoSnap EXCEPT !.floor = floor, !.closed = closed]

\* A call begins and performs current := g.currentSegment.Load() (i = 0);
\* if current == nil { return 0, "no available segment" }
Begin(p, floor, alone) ==
  /\ pc[p] = "idle"
  /\ budget > 0
  /\ \A q \in AllCallers : q < p => calls[q] > 0
  /\ calls' = [calls EXCEPT ![p] = @ + 1]
  /\ budget' = budget - 1
  /\ IF currentSegment = NoSeg
       THEN Return(p, Snapshot(p, floor, alone), "err", 0, pc)
       ELSE /\ snap' = [snap EXCEPT ![p] = Snapshot(p, floor, alone)]
            /\ cur' = [cur EXCEPT ![p] = currentSegment]
            /\ pc' = [pc EXCEPT ![p] = "add"]
            /\ UNCHANGED <<id, i, j, tmp, failed, issued, dupes, seen, batch>>
  /\ UNCHANGED <<storeVars, heap, slotVars, loadingFlag, res, origin,
                 prefetchIncs>>

\* A call begins; the order of calls in real time is not recorded.
BeginCall(p) == Begin(p, 0, Lone(p))

\* A call begins; what was returned before it is recorded.
BeginTimed(p) == Begin(p, SetMax(issued), FALSE)

\* ---------------------------------------------------------- /batch handler
\* The handler has written its whole response.
BatchDone(b) ==
  \/ b.status = 500
  \/ b.status = 200 /\ Len(b.body) = b.count

\* Mutant: the IDs obtained before the failure are written after the error.
ErrorBodyPartial(ids) == ids

\* What http.Error writes of the IDs obtained so far: none.
ErrorBody(ids) == <<>>

\* A /batch request arrives with count n: ids := make([]int64, 0, count)
BatchBegin(p, n) ==
  /\ pc[p] = "idle"
  /\ batch[p].count = 0 \/ BatchDone(batch[p])
  /\ budget > 0
  /\ batch' = [batch EXCEPT ![p] = [NoBatch EXCEPT !.count = n]]
  /\ UNCHANGED <<storeVars, heap, slotVars, loadingFlag, pc, callVars, res,
                 origin, calls, budget, failed, snap, issued, dupes, seen,
                 prefetchIncs>>

\* for i := 0; i < count; i++ { id, err := gen.NextID() ...
BatchCall(p) ==
  /\ batch[p].count > 0
  /\ ~batch[p].err
  /\ Len(batch[p].ids) < batch[p].count
  /\ BeginCall(p)

\* http.Error(w, err.Error(), http.StatusInternalServerError); return
BatchFail(p) ==
  /\ pc[p] = "idle"
  /\ batch[p].err
  /\ batch[p].status = 0
  /\ batch' = [batch EXCEPT ![p].status = 500,
                            ![p].body = ErrorBody(batch[p].ids)]
  /\ UNCHANGED <<storeVars, heap, slotVars, loadingFlag, pc, callVars, res,
                 origin, calls, budget, failed, snap, issued, dupes, seen,
                 prefetchIncs>>

\* for i, id := range ids { ... fmt.Fprintf(w, "%d", id) }: one iteration.
BatchWrite(p) ==
  /\ pc[p] = "idle"
  /\ batch[p].count > 0
  /\ ~batch[p].err
  /\ Len(batch[p].ids) = batch[p].count
  /\ Len(batch[p].body) < batch[p].count
  /\ batch' = [batch EXCEPT
                 ![p].status = 200,
                 ![p].body = Append(@, batch[p].ids[Len(@) + 1])]
  /\ UNCHANGED <<storeVars, heap, slotVars, loadingFlag, pc, callVars, res,
                 origin, calls, budget, failed, snap, issued, dupes, seen,
                 prefetchIncs>>

\* current := g.currentSegment.Load() on the retry pass (i = 1);
\* if current == nil { return 0, "no available segment" }
LoadCurrent(p) ==
  /\ pc[p] = "load_cur"
  /\ IF currentSegment = NoSeg
       THEN Finish(p, "err", 0, pc)
       ELSE /\ cur' = [cur EXCEPT ![p] = currentSegment]
            /\ Goto(p, "add")
            /\ UNCHANGED <<id, i, j, tmp>>
  /\ UNCHANGED <<storeVars, heap, slotVars, loadingFlag, res, origin,
                 prefetchIncs>>

\* id := atomic.AddInt64(&current.Current, 1); if id <= current.Max ...
AddCursor(p) ==
  /\ pc[p] = "add"
  /\ LET v == heap[cur[p]].Current + 1 IN
       /\ heap' = [heap EXCEPT ![cur[p]].Current = v]
       /\ IF InRange(v, heap[cur[p]])
            THEN /\ id' = [id EXCEPT ![p] = v]
                 /\ Goto(p, "sl_ratio")
                 /\ UNCHANGED j
            ELSE /\ j' = [j EXCEPT ![p] = 0]
                 /\ Goto(p, "sw_check")
                 /\ UNCHANGED id
  /\ UNCHANGED <<storeVars, slotVars, loadingFlag, cur, i, tmp, res, origin,
                 prefetchIncs>>

\* shouldLoadNext: the ratio, read from the shared cursor.
CheckRatio(p) ==
  /\ pc[p] = "sl_ratio"
  /\ IF RatioReached(heap[cur[p]])
       THEN Goto(p, "sl_next") /\ UNCHANGED callVars
       ELSE Finish(p, "id", id[p], pc)
  /\ UNCHANGED <<storeVars, heap, slotVars, loadingFlag, res, origin,
                 prefetchIncs>>

\* shouldLoadNext: g.nextSegment.Load() == nil
CheckStandby(p) ==
  /\ pc[p] = "sl_next"
  /\ IF nextSegment = NoSeg
       THEN Goto(p, "sl_flag") /\ UNCHANGED callVars
       ELSE Finish(p, "id", id[p], pc)
  /\ UNCHANGED <<storeVars, heap, slotVars, loadingFlag, res, origin,
                 prefetchIncs>>

\* shouldLoadNext: !g.loadingFlag.Load() is false: return id.
NoDispatch(p) ==
  /\ pc[p] = "sl_flag"
  /\ loadingFlag
  /\ Finish(p, "id", id[p], pc)
  /\ UNCHANGED <<storeVars, heap, slotVars, loadingFlag, res, origin,
                 prefetchIncs>>

\* shouldLoadNext is true: go g.loadNextSegment(); return id.
Dispatch(p) ==
  /\ pc[p] = "sl_flag"
  /\ ~loadingFlag
  /\ \E g \in Goroutines :
       /\ pc[g] = "g_free"
       /\ \A h \in Goroutines : h < g => pc[h] # "g_free"
       /\ origin' = [origin EXCEPT ![g] = cur[p]]
       /\ Finish(p, "id", id[p], [pc EXCEPT ![g] = "ld_cas"])
  /\ UNCHANGED <<storeVars, heap, slotVars, loadingFlag, res, prefetchIncs>>

\* --------------------------------------------------------- switchSegment
\* Loop head: if g.nextSegment.Load() != nil { break }
SwitchCheck(p) ==
  /\ pc[p] = "sw_check"
  /\ Goto(p, IF nextSegment # NoSeg THEN "sw_final" ELSE "ld_cas")
  /\ UNCHANGED <<storeVars, heap, slotVars, loadingFlag, callVars, res,
                 origin, prefetchIncs>>

\* After the loop: if g.nextSegment.Load() == nil { return error }, which
\* NextID wraps and returns.
SwitchFinal(p) ==
  /\ pc[p] = "sw_final"
  /\ IF nextSegment = NoSeg
       THEN Finish(p, "err", 0, pc)
       ELSE Goto(p, "sw_load") /\ UNCHANGED callVars
  /\ UNCHANGED <<storeVars, heap, slotVars, loadingFlag, res, origin,
                 prefetchIncs>>

\* The argument of g.currentSegment.Store(...): g.nextSegment.Load()
SwitchLoad(p) ==
  /\ pc[p] = "sw_load"
  /\ tmp' = [tmp EXCEPT ![p] = nextSegment]
  /\ Goto(p, "sw_store")
  /\ UNCHANGED <<storeVars, heap, slotVars, loadingFlag, cur, id, i, j, res,
                 origin, prefetchIncs>>

\* g.currentSegment.Store(tmp)
SwitchStore(p) ==
  /\ pc[p] = "sw_store"
  /\ currentSegment' = tmp[p]
  /\ Goto(p, "sw_clear")
  /\ UNCHANGED <<storeVars, heap, nextSegment, loadingFlag, callVars, res,
                 origin, prefetchIncs>>

\* g.nextSegment.Store(nil); return nil; NextID's loop goes to its next pass
\* or, after the last one, returns "failed to generate id after retry".
SwitchClear(p) ==
  /\ pc[p] = "sw_clear"
  /\ nextSegment' = NoSeg
  /\ IF i[p] + 1 < NextIDAttempts
       THEN /\ i' = [i EXCEPT ![p] = @ + 1]
            /\ Goto(p, "load_cur")
            /\ UNCHANGED <<cur, id, j, tmp>>
       ELSE Finish(p, "err", 0, pc)
  /\ UNCHANGED <<storeVars, heap, currentSegment, loadingFlag, res, origin,
                 prefetchIncs>>

\* ------------------------------------------------------- loadNextSegment
\* loadNextSegment has returned to its caller: a goroutine ends, and
\* switchSegment handles the result (lines 97-103).
LoadReturns(t, err) ==
  IF t \in Goroutines
    THEN /\ pc' = [pc EXCEPT ![t] = "g_free"]
         /\ origin' = [origin EXCEPT ![t] = NoSeg]
         /\ UNCHANGED <<callVars, histVars>>
    ELSE /\ UNCHANGED origin
         /\ IF err /\ j[t] = maxRetries - 1
              THEN Finish(t, "err", 0, pc)
              ELSE /\ j' = [j EXCEPT ![t] = @ + 1]
                   /\ Goto(t, IF j[t] + 1 < maxRetries
                                THEN "sw_check" ELSE "sw_final")
                   /\ UNCHANGED <<cur, id, i, tmp>>

\* if !g.loadingFlag.CompareAndSwap(false, true) { return nil }
LoadSkip(t) ==
  /\ pc[t] = "ld_cas"
  /\ ~CanAcquire(loadingFlag)
  /\ LoadReturns(t, FALSE)
  /\ UNCHANGED <<storeVars, heap, slotVars, loadingFlag, res, prefetchIncs>>

\* The compare-and-swap succeeds.
LoadAcquire(t) ==
  /\ pc[t] = "ld_cas"
  /\ CanAcquire(loadingFlag)
  /\ loadingFlag' = TRUE
  /\ Goto(t, "ld_store")
  /\ UNCHANGED <<storeVars, heap, slotVars, callVars, res, origin,
                 prefetchIncs>>

\* One more store round trip by thread t, counted for a caller's call.
CountAttempt(t) ==
  /\ snap' = IF t \in AllCallers /\ snap[t].lone
               THEN [snap EXCEPT ![t].att = @ + 1]
               ELSE snap
  /\ UNCHANGED <<calls, budget, failed, issued, dupes, seen, batch>>

\* FindOneAndUpdate($inc maxId by step, upsert, return the new document)
\* succeeds.
StoreIncrement(t) ==
  /\ pc[t] = "ld_store"
  /\ storeUp /\ ~closed
  /\ maxId < MaxRanges * Step
  /\ maxId' = maxId + Step
  /\ res' = [res EXCEPT ![t] = [kind |-> "ok", v |-> maxId + Step]]
  /\ prefetchIncs' = IF t \in Goroutines
                       THEN [prefetchIncs EXCEPT ![origin[t]] = @ + 1]
                       ELSE prefetchIncs
  /\ pc' = [pc EXCEPT ![t] = "ld_install"]
  /\ CountAttempt(t)
  /\ UNCHANGED <<storeUp, outages, closed, heap, slotVars, loadingFlag,
                 callVars, origin>>

\* Mutant: the error is returned without the deferred release of the flag.
StoreFailsNoRelease(t) ==
  /\ pc[t] = "ld_store"
  /\ ~storeUp \/ closed
  /\ LoadReturns(t, TRUE)
  /\ UNCHANGED <<storeVars, heap, slotVars, loadingFlag, res, prefetchIncs>>

\* FindOneAndUpdate fails: the store is unreachable or the 5 s context
\* expires, or the client has been disconnected.
StoreFails(t) ==
  /\ pc[t] = "ld_store"
  /\ ~storeUp \/ closed
  /\ res' = [res EXCEPT ![t] = [kind |-> "err", v |-> 0]]
  /\ pc' = [pc EXCEPT ![t] = "ld_release"]
  /\ CountAttempt(t)
  /\ UNCHANGED <<storeVars, heap, slotVars, loadingFlag, callVars, origin,
                 prefetchIncs>>

\* if result.MaxID <= 0 { return error }; g.nextSegment.Store(newSegment)
LoadInstall(t) ==
  /\ pc[t] = "ld_install"
  /\ IF ~Valid(res[t].v)
       THEN /\ res' = [res EXCEPT ![t] = [kind |-> "err", v |-> 0]]
            /\ snap' = IF t \in AllCallers
                         THEN [snap EXCEPT ![t].invalid = TRUE]
                         ELSE snap
            /\ UNCHANGED <<heap, nextSegment, prefetchIncs>>
       ELSE /\ heap' = Append(heap, NewSegment(res[t].v))
            /\ nextSegment' = Len(heap) + 1
            /\ prefetchIncs' = Append(prefetchIncs, 0)
            /\ UNCHANGED <<res, snap>>
  /\ pc' = [pc EXCEPT ![t] = "ld_release"]
  /\ UNCHANGED <<calls, budget, failed, issued, dupes, seen, batch>>
  /\ UNCHANGED <<storeVars, currentSegment, loadingFlag, callVars, origin>>

\* defer g.loadingFlag.Store(false), then the return.
LoadRelease(t) ==
  /\ pc[t] = "ld_release"
  /\ loadingFlag' = FALSE
  /\ res' = [res EXCEPT ![t] = NoRes]
  /\ LoadReturns(t, res[t].kind # "ok")
  /\ UNCHANGED <<storeVars, heap, slotVars, prefetchIncs>>

\* ----------------------------------------------------------- environment
\* g.mongoClient.Disconnect
Close ==
  /\ ~closed
  /\ closed' = TRUE
  /\ UNCHANGED <<maxId, storeUp, outages, heap, slotVars, loadingFlag, pc,
                 callVars, res, origin, histVars, prefetchIncs>>

\* The store becomes unreachable.
StoreDown ==
  /\ storeUp /\ ~closed
  /\ outages < MaxOutages
  /\ storeUp' = FALSE
  /\ outages' = outages + 1
  /\ UNCHANGED <<maxId, closed, heap, slotVars, loadingFlag, pc, callVars,
                 res, origin, histVars, prefetchIncs>>

\* Another writer overwrites the counter document with a negative value: the
\* next MaxInvalid answers of the store are not positive.
StoreCorrupted ==
  /\ storeUp /\ ~closed
  /\ outages < MaxOutages
  /\ maxId' = 0 - MaxInvalid * Step
  /\ outages' = outages + 1
  /\ UNCHANGED <<storeUp, closed, heap, slotVars, loadingFlag, pc, callVars,
                 res, origin, histVars, prefetchIncs>>

\* The store recovers.
StoreRecovers ==
  /\ ~storeUp /\ ~closed
  /\ storeUp' = TRUE
  /\ UNCHANGED <<maxId, outages, closed, heap, slotVars, loadingFlag, pc,
                 callVars, res, origin, histVars, prefetchIncs>>

\* ------------------------------------------------------------------ Next
\* Two concurrent callers, their goroutines and store outages.  An outage
\* that does not end is what Close leaves the callers with.
Callers == {1, 2}

Next ==
  \/ \E p \in Callers :
       \/ BeginCall(p)
       \/ LoadCurrent(p)
       \/ AddCursor(p)
       \/ CheckRatio(p)
       \/ CheckStandby(p)
       \/ NoDispatch(p)
       \/ Dispatch(p)
       \/ SwitchCheck(p)
       \/ SwitchFinal(p)
       \/ SwitchLoad(p)
       \/ SwitchStore(p)
       \/ SwitchClear(p)
  \/ \E t \in Callers \cup Goroutines :
       \/ LoadSkip(t)
       \/ LoadAcquire(t)
       \/ StoreIncrement(t)
       \/ StoreFails(t)
       \/ LoadInstall(t)
       \/ LoadRelease(t)
  \/ StoreDown
  \/ StoreRecovers

Spec == Init /\ [][Next]_vars

\* Two concurrent callers, their goroutines and Close.
NextClose ==
  \/ \E p \in Callers :
       \/ BeginCall(p)
       \/ LoadCurrent(p)
       \/ AddCursor(p)
       \/ CheckRatio(p)
       \/ CheckStandby(p)
       \/ NoDispatch(p)
       \/ Dispatch(p)
       \/ SwitchCheck(p)
       \/ SwitchFinal(p)
       \/ SwitchLoad(p)
       \/ SwitchStore(p)
       \/ SwitchClear(p)
  \/ \E t \in Callers \cup Goroutines :
       \/ LoadSkip(t)
       \/ LoadAcquire(t)
       \/ StoreIncrement(t)
       \/ StoreFails(t)
       \/ LoadInstall(t)
       \/ LoadRelease(t)
  \/ Close

SpecClose == Init /\ [][NextClose]_vars

\* Two concurrent callers, their goroutines, and a store that has an outage
\* or whose counter is corrupted.
NextCorrupt ==
  \/ \E p \in Callers :
       \/ BeginCall(p)
       \/ LoadCurrent(p)
       \/ AddCursor(p)
       \/ CheckRatio(p)
       \/ CheckStandby(p)
       \/ NoDispatch(p)
       \/ Dispatch(p)
       \/ SwitchCheck(p)
       \/ SwitchFinal(p)
       \/ SwitchLoad(p)
       \/ SwitchStore(p)
       \/ SwitchClear(p)
  \/ \E t \in Callers \cup Goroutines :
       \/ LoadSkip(t)
       \/ LoadAcquire(t)
       \/ StoreIncrement(t)
       \/ StoreFails(t)
       \/ LoadInstall(t)
       \/ LoadRelease(t)
  \/ StoreDown
  \/ StoreCorrupted

SpecCorrupt == Init /\ [][NextCorrupt]_vars

\* /batch requests served one after another, the goroutines their calls
\* start, and a store that may go down and recover.
Handlers == {1}

NextBatch ==
  \/ \E p \in Handlers :
       \/ \E n \in 1..MaxBatch : BatchBegin(p, n)
       \/ BatchCall(p)
       \/ BatchFail(p)
       \/ BatchWrite(p)
       \/ LoadCurrent(p)
       \/ AddCursor(p)
       \/ CheckRatio(p)
       \/ CheckStandby(p)
       \/ NoDispatch(p)
       \/ Dispatch(p)
       \/ SwitchCheck(p)
       \/ SwitchFinal(p)
       \/ SwitchLoad(p)
       \/ SwitchStore(p)
       \/ SwitchClear(p)
  \/ \E t \in Handlers \cup Goroutines :
       \/ LoadSkip(t)
       \/ LoadAcquire(t)
       \/ StoreIncrement(t)
       \/ StoreFails(t)
       \/ LoadInstall(t)
       \/ LoadRelease(t)
  \/ StoreDown
  \/ StoreRecovers

SpecBatch == Init /\ [][NextBatch]_vars

\* Three concurrent callers and their goroutines against a healthy store,
\* with the real-time order of calls recorded.
NextOrder ==
  \/ \E p \in AllCallers :
       \/ BeginTimed(p)
       \/ LoadCurrent(p)
       \/ AddCursor(p)
       \/ CheckRatio(p)
       \/ CheckStandby(p)
       \/ NoDispatch(p)
       \/ Dispatch(p)
       \/ SwitchCheck(p)
       \/ SwitchFinal(p)
       \/ SwitchLoad(p)
       \/ SwitchStore(p)
       \/ SwitchClear(p)
  \/ \E t \in Threads :
       \/ LoadSkip(t)
       \/ LoadAcquire(t)
       \/ StoreIncrement(t)
       \/ LoadInstall(t)
       \/ LoadRelease(t)

\* The generator once earlier calls have been issued the whole first range
\* and the prefetch dispatched at its last ID has installed the second range
\* as standby: a state Init leads to.
InitExhausted ==
  /\ maxId = 2 * Step
  /\ storeUp = TRUE
  /\ outages = 0
  /\ closed = FALSE
  /\ heap = <<[NewSegment(Step) EXCEPT !.Current = Step],
              NewSegment(2 * Step)>>
  /\ currentSegment = 1
  /\ nextSegment = 2
  /\ loadingFlag = FALSE
  /\ pc = [t \in Threads |-> IF t \in AllCallers THEN "idle" ELSE "g_free"]
  /\ cur = [p \in AllCallers |-> NoSeg]
  /\ id = [p \in AllCallers |-> 0]
  /\ i = [p \in AllCallers |-> 0]
  /\ j = [p \in AllCallers |-> 0]
  /\ tmp = [p \in AllCallers |-> NoSeg]
  /\ res = [t \in Threads |-> NoRes]
  /\ origin = [g \in Goroutines |-> NoSeg]
  /\ calls = [p \in AllCallers |-> 0]
  /\ budget = MaxCalls
  /\ failed = [p \in AllCallers |-> FALSE]
  /\ snap = [p \in AllCallers |-> NoSnap]
  /\ issued = 1..Step
  /\ dupes = {}
  /\ seen = {}
  /\ batch = [p \in AllCallers |-> NoBatch]
  /\ prefetchIncs = <<1, 0>>

SpecOrder == InitExhausted /\ [][NextOrder]_vars

\* ================================================================ claims

\* C1. Uniqueness: no two successful NextID calls of one generator return
\* the same value, whatever the interleaving of callers, prefetch goroutines
\* and segment switches.
C1_Uniqueness == dupes = {}

\* IDs of two ranges have been returned, to both callers.
C1_Witness ==
  /\ Cardinality(issued) > Step
  /\ \A p \in Callers : calls[p] > 0

\* C2. Real-time order: an ID returned by a call that began after another
\* call had returned is greater than the ID that call returned.
C2_RealTimeOrder == "late" \notin seen

\* C3. No over-range leakage: an ID a caller holds or has returned lies in
\* [Min, Max] of the segment whose cursor was incremented to claim it.
C3_NoOverRangeLeak ==
  /\ "leak" \notin seen
  /\ \A p \in AllCallers :
       id[p] # 0 => heap[cur[p]].Min <= id[p] /\ id[p] <= heap[cur[p]].Max

\* A caller has discarded an over-range value, switched, and holds an ID
\* claimed on its second pass.
C3_Witness ==
  \E p \in Callers : i[p] = 1 /\ id[p] # 0 /\ pc[p] = "sl_ratio"

\* C4. With a store that answers every increment, every NextID call returns
\* an ID and no error.
C4_NoErrorWhenHealthy == "err_healthy" \notin seen

\* C5. Refill coalescing: the goroutines dispatched by calls on one active
\* segment perform at most one store increment between them.
C5_RefillCoalesced ==
  \A k \in 1..Len(prefetchIncs) : prefetchIncs[k] <= 1

\* C6. Sequential scenario: with one caller and a healthy store whose
\* counter started at 0, the n-th call returns n.
C6_SequentialIDs == "seq_bad" \notin seen

\* C7. Store outage at exhaustion, one caller: a call that begins with the
\* active segment exhausted and no standby, and runs while the store is down,
\* returns an error after at most maxRetries store attempts; the next call,
\* made once the store has recovered, returns the Min of a new range.
C7_OutageThenRecovery ==
  /\ "outage_id" \notin seen
  /\ "recover_bad" \notin seen

\* C8. After Close, every NextID call that begins returns an error, no ID.
C8_FailsAfterClose == "closed_id" \notin seen

\* C9. The store's counter is at least every ID that NextID has returned.
C9_StoreCoversIssued == \A v \in issued : v <= maxId

\* An ID of the second range has been returned.
C9_Witness == \E v \in issued : v > Step /\ maxId >= 2 * Step

\* C10. Refill mutual exclusion: at most one loadNextSegment is past the
\* compare-and-swap at any time, and a loadNextSegment that finds the flag
\* set returns nil without a store call and without touching the store's
\* counter, the flag or the two slots.
LoadsInFlight == {t \in Threads : InLoad(t)}

SkipStep(t) ==
  /\ pc[t] = "ld_cas"
  /\ loadingFlag
  /\ pc'[t] # pc[t]

SkipIsNoOp(t) ==
  /\ UNCHANGED <<maxId, heap, currentSegment, nextSegment, loadingFlag>>
  /\ pc'[t] \in {"g_free", "sw_check", "sw_final"}

C10_RefillMutex ==
  /\ [](Cardinality(LoadsInFlight) <= 1)
  /\ [][\A t \in Threads : SkipStep(t) => SkipIsNoOp(t)]_vars

\* A caller in switchSegment has had loadNextSegment return nil without a
\* store call while a goroutine holds the flag.
C10_Witness ==
  \E g \in Goroutines, p \in Callers :
    /\ InLoad(g)
    /\ pc[p] \in {"sw_check", "sw_final"}
    /\ j[p] >= 1
    /\ maxId = Step /\ outages = 0

\* C11. The loading guard is released on every exit path of a refill that
\* acquired it (success, store error or timeout, invalid range): loadingFlag
\* is true exactly while some loadNextSegment is past the compare-and-swap
\* and has not returned.
C11_GuardReleased == loadingFlag <=> \E t \in Threads : InLoad(t)

\* A caller's refill has ended on an invalid range and returned to
\* switchSegment, and the flag is free again.
C11_Witness ==
  \E p \in Callers :
    /\ snap[p].invalid
    /\ pc[p] = "sw_check"
    /\ ~loadingFlag

\* C12. Batch retrieval is all-or-nothing: a /batch response that reports
\* the failure of a NextID call holds none of the IDs obtained, and a
\* successful one holds exactly count IDs, those obtained, in that order.
C12_BatchAllOrNothing ==
  \A p \in AllCallers :
    LET b == batch[p] IN
      /\ b.status = 500 => b.err /\ b.body = <<>>
      /\ b.status = 200 =>
            /\ ~b.err
            /\ Len(b.ids) = b.count
            /\ b.body = SubSeq(b.ids, 1, Len(b.body))
      /\ b.status = 0 => b.body = <<>>
      /\ b.err => Len(b.ids) < b.count

\* A request for MaxBatch IDs has been answered with an error after it had
\* obtained all but the last of them.
C12_Witness ==
  \E p \in Handlers :
    /\ batch[p].status = 500
    /\ batch[p].count = MaxBatch
    /\ Len(batch[p].ids) = MaxBatch - 1

\* C13. The active slot of a constructed generator is never absent.
C13_ActiveNeverAbsent == currentSegment # NoSeg

\* C14. Cross-segment monotonicity of the active slot: whenever the active
\* segment is replaced by another segment, the Min of the new one is greater
\* than the Max of the one replaced.
C14_ActiveAdvances ==
  [][(/\ currentSegment' # currentSegment
      /\ currentSegment # NoSeg
      /\ currentSegment' # NoSeg)
     => heap[currentSegment'].Min > heap[currentSegment].Max]_vars

\* C15. Only one replacement takes effect per exhaustion: the active segment
\* is replaced by another segment only once its own cursor has passed its
\* Max.
C15_SingleReplacement ==
  [][(/\ currentSegment' # currentSegment
      /\ currentSegment # NoSeg
      /\ currentSegment' # NoSeg)
     => heap[currentSegment].Current > heap[currentSegment].Max]_vars

\* C16. The promote step is atomic for concurrent observers: in no state is
\* one segment in both the active and the standby slot.
C16_PromoteAtomic ==
  ~(currentSegment # NoSeg /\ currentSegment = nextSegment)

\* C17. A segment leaves the standby slot only by being promoted or by being
\* overwritten by a newer one: the slot is cleared only of the segment that
\* is the active one.
C17_StandbyNotDropped ==
  [][(nextSegment # NoSeg /\ nextSegment' = NoSeg)
     => nextSegment = currentSegment]_vars

\* C18. A blocking switch with standby absent waits for a refill: it does not
\* return "failed to load next segment", the error of a switch whose last
\* loadNextSegment did not fail.
C18_SwitchWaits ==
  [][\A p \in AllCallers : ~(pc[p] = "sw_final" /\ pc'[p] = "idle")]_vars

\* C19. An invalid range is not retried: once a caller's loadNextSegment has
\* got a counter value <= 0 from the store, that NextID call gets no further
\* answer from the store.
C19_InvalidNotRetried ==
  \A p \in AllCallers : ~(snap[p].invalid /\ pc[p] = "ld_install")

\* C20. A failed refill installs nothing: the steps of a loadNextSegment
\* whose store call failed or answered <= 0 leave both slots and every
\* segment as they are, and a caller that holds an in-range ID returns it,
\* whatever becomes of the prefetch it or another call dispatched.
FailedLoadStep(t) ==
  \/ pc[t] = "ld_store" /\ pc'[t] = "ld_release"
  \/ pc[t] = "ld_install" /\ res[t].v <= 0 /\ pc'[t] # pc[t]
  \/ pc[t] = "ld_release" /\ res[t].kind = "err" /\ pc'[t] # pc[t]

HoldsID(p) == id[p] # 0

C20_FailedRefillInstallsNothing ==
  /\ [][\A t \in Threads :
          FailedLoadStep(t) => UNCHANGED <<currentSegment, nextSegment, heap>>]_vars
  /\ [][\A p \in AllCallers :
          HoldsID(p) => \/ pc'[p] \in {"sl_ratio", "sl_next", "sl_flag"}
                        \/ pc'[p] = "idle" /\ id[p] \in issued']_vars

\* A prefetch goroutine has got an invalid answer from the corrupted counter;
\* the call that dispatched it has returned the last ID of the active
\* segment, and the slots are as that call left them.
C20_Witness ==
  \E g \in Goroutines :
    /\ pc[g] = "ld_release" /\ res[g].kind = "err"
    /\ storeUp /\ outages = 1
    /\ currentSegment = origin[g] /\ nextSegment = NoSeg
    /\ heap[origin[g]].Max \in issued

\* C21. Bounded retry: one NextID call claims a cursor value at most
\* NextIDAttempts times and runs at most as many switches, a switchSegment
\* makes at most maxRetries calls of loadNextSegment, and the call does not
\* return "failed to generate id after retry" from a switch that succeeded.
RetryBounds ==
  \A p \in AllCallers :
    /\ i[p] \in 0..(NextIDAttempts - 1)
    /\ j[p] \in 0..maxRetries
    /\ pc[p] \in {"ld_cas", "ld_store", "ld_install", "ld_release"}
         => j[p] < maxRetries

SwitchSucceeded(p) == pc[p] = "sw_clear"

C21_BoundedRetry ==
  /\ []RetryBounds
  /\ [][\A p \in AllCallers :
          SwitchSucceeded(p) => pc'[p] \in {"sw_clear", "load_cur"}]_vars

\* C22. Prefetch trigger: a NextID that claimed v from segment s dispatches a
\* refill only if (v - s.Min + 1) / (s.Max - s.Min + 1) >= 0.8, and a call
\* whose v is at or above that mark does not return on the ratio test.
OwnRatioReached(p) ==
  LET s == heap[cur[p]] IN
    (id[p] - s.Min + 1) * ThresholdDen >= (s.Max - s.Min + 1) * ThresholdNum

Dispatches(p) ==
  /\ pc[p] = "sl_flag"
  /\ pc'[p] = "idle"
  /\ \E g \in Goroutines : pc[g] = "g_free" /\ pc'[g] = "ld_cas"

ReturnsBelowMark(p) == pc[p] = "sl_ratio" /\ pc'[p] = "idle"

C22_PrefetchTrigger ==
  [][\A p \in AllCallers :
       /\ Dispatches(p) => OwnRatioReached(p)
       /\ ReturnsBelowMark(p) => ~OwnRatioReached(p)]_vars

====
